---- MODULE Spec2Model ----
(***************************************************************************)
(* Model of the PDF batch pipeline of "AIIntern Task/main.py":             *)
(* parse_pdf -> summarize_text -> extract_keywords -> store_pdf_metadata,  *)
(* run by process_all_pdfs over a multiprocessing.Pool, followed by        *)
(* generate_report, display_mongo_summary and client.close().              *)
(*                                                                         *)
(* A text is a sequence of lexemes: a word, the sentence terminator "!"    *)
(* or the whitespace " ".  Two specifications share the operators:         *)
(*   Spec      the whole run of the script (one parent, NumWorkers pool    *)
(*             processes);                                                 *)
(*   SpecText  the text functions applied to every file of FileInputs.     *)
(***************************************************************************)
EXTENDS Integers, Sequences, FiniteSets, Bags, TLC

\* ---------------------------------------------------------------- bounds
MaxFiles == 2        \* entries of the source directory
NumWorkers == 2      \* processes of Pool() (os.cpu_count() in the code)
MaxPages == 2        \* pages of one PDF

\* ------------------------------------------------------ program constants
NumSentences == 3    \* summarize_text(text, num_sentences=3)
NumKeywords == 5     \* extract_keywords(text, num_keywords=5)

\* ------------------------------------------------------------- lexemes
Range(s) == {s[i] : i \in 1..Len(s)}

\* str.isspace of one lexeme
isspace(c) == c = " "

\* str.isalpha of one lexeme
isalpha(w) == w \in {"Cat", "cat", "dog", "the", "x"}

\* str.lower of one lexeme
lower(w) == IF w = "Cat" THEN "cat" ELSE w

\* stopwords.words('english'), restricted to the lexemes of the model
STOPWORDS == {"the"}

\* the texts page.extract_text() returns
PageTexts ==
    { <<>>,
      <<"Cat", "!", " ", "Cat", "!">>,
      <<"Cat", "!", " ", "dog", "!">>,
      <<"the", "!">>,
      <<"x", "!", " ", "x", "!">> }

RECURSIVE lstrip(_)
lstrip(s) == IF s # <<>> /\ isspace(Head(s)) THEN lstrip(Tail(s)) ELSE s

RECURSIVE rstrip(_)
rstrip(s) ==
    IF s # <<>> /\ isspace(s[Len(s)]) THEN rstrip(SubSeq(s, 1, Len(s) - 1)) ELSE s

\* str.strip()
strip(s) == rstrip(lstrip(s))

\* " ".join(parts)
RECURSIVE join(_)
join(parts) ==
    IF parts = <<>> THEN <<>>
    ELSE IF Len(parts) = 1 THEN parts[1]
    ELSE parts[1] \o <<" ">> \o join(Tail(parts))

\* ------------------------------------------------------------ parse_pdf
\* A file is the sequence of the page texts the reader extracts and a flag
\* telling whether the reader raises after them (open() or PdfReader() raises
\* when there are none, reader.pages / extract_text() raises otherwise).
RECURSIVE read_pages(_, _)
read_pages(pages, text) ==
    IF pages = <<>> THEN text
    ELSE read_pages(Tail(pages), text \o Head(pages) \o <<" ">>)

\* parse_pdf as it would be if the except clause reset the text
parse_pdf_drops_partial(file) ==
    [ text   |-> IF file.broken THEN <<>> ELSE read_pages(file.pages, <<>>),
      logged |-> file.broken,
      raised |-> FALSE ]

parse_pdf(file) ==
    [ text   |-> read_pages(file.pages, <<>>),
      logged |-> file.broken,
      raised |-> FALSE ]

\* -------------------------------------------------------- nltk, sklearn
\* sent_tokenize: a sentence ends after "!", surrounding whitespace dropped
RECURSIVE split_sentences(_, _)
split_sentences(rest, cur) ==
    IF rest = <<>>
    THEN IF strip(cur) = <<>> THEN <<>> ELSE <<strip(cur)>>
    ELSE IF Head(rest) = "!"
    THEN <<strip(Append(cur, "!"))>> \o split_sentences(Tail(rest), <<>>)
    ELSE split_sentences(Tail(rest), Append(cur, Head(rest)))

sent_tokenize(text) == split_sentences(text, <<>>)

\* word_tokenize: the lexemes that are not whitespace
word_tokenize(text) == LET notspace(c) == ~isspace(c) IN SelectSeq(text, notspace)

\* TfidfVectorizer's analyzer: lower-case, token_pattern (?u)\b\w\w+\b
\* (tokens of two or more word characters; no stop-word list by default)
analyze(doc) ==
    LET token_pattern(w) == lower(w) \in {"cat", "dog", "the"}
        toks == SelectSeq(doc, token_pattern)
    IN  [i \in 1..Len(toks) |-> lower(toks[i])]

\* the vocabulary fit_transform learns from a list of documents
vocabulary(docs) == UNION {Range(analyze(docs[i])) : i \in 1..Len(docs)}

\* injective sequences of length n over S
Arrangements(S, n) ==
    {p \in [1..n -> S] : \A i, j \in 1..n : p[i] = p[j] => i = j}

Count(seq, x) == Cardinality({i \in 1..Len(seq) : seq[i] = x})

Raised == [raised |-> TRUE, value |-> <<>>]
Returned(v) == [raised |-> FALSE, value |-> v]

\* ------------------------------------------------------- summarize_text
\* The set of outcomes of summarize_text(text, num_sentences).  A sentence
\* without a vocabulary term has the TF-IDF score 0, any other a positive
\* score; positive scores are l2-normalised floating-point sums whose order
\* is left open, so the argsort is any ascending order consistent with
\* "0 < positive".
summarize_text(text, num_sentences) ==
    LET sentences == sent_tokenize(text)
        n == Len(sentences)
        positive(i) == analyze(sentences[i]) # <<>>
        \* argsort()[-num_sentences:] : ascending, the greatest last
        ascending(idx) ==
            /\ \A a, b \in 1..num_sentences :
                   a < b => ~(positive(idx[a]) /\ ~positive(idx[b]))
            /\ \A i \in 1..n :
                   (i \notin Range(idx) /\ positive(i))
                       => \A a \in 1..num_sentences : positive(idx[a])
    IN  IF n <= num_sentences
        THEN {Returned(join(sentences))}
        ELSE IF vocabulary(sentences) = {}
        THEN {Raised}      \* ValueError: empty vocabulary
        ELSE {Returned(join([a \in 1..num_sentences |-> sentences[idx[a]]])) :
                 idx \in {p \in Arrangements(1..n, num_sentences) : ascending(p)}}

\* ----------------------------------------------------- extract_keywords
\* The set of outcomes of extract_keywords(text, num_keywords).  With one
\* document the TF-IDF weight of a term is its count over a common norm;
\* equal counts are equal floats and argsort (not a stable sort) may leave
\* them in any order.
extract_keywords(text, num_keywords) ==
    LET isword(w) == isalpha(w) /\ lower(w) \notin STOPWORDS
        kept == SelectSeq(word_tokenize(text), isword)
        words == [i \in 1..Len(kept) |-> lower(kept[i])]
        terms == analyze(words)
        feature_array == Range(terms)
        k == IF Cardinality(feature_array) < num_keywords
             THEN Cardinality(feature_array) ELSE num_keywords
        descending(p) ==
            \A a, b \in 1..Cardinality(feature_array) :
                a < b => Count(terms, p[a]) >= Count(terms, p[b])
    IN  IF feature_array = {}
        THEN {Raised}      \* ValueError: empty vocabulary
        ELSE {Returned(SubSeq(p, 1, k)) :
                 p \in {q \in Arrangements(feature_array, Cardinality(feature_array)) :
                           descending(q)}}


\* ----------------------------------------------------------------- state
VARIABLES
    dirExists,     \* os.path.exists(pdf_dir)
    directory,     \* os.listdir(pdf_dir): entries [name, ext, content, size]
    mainpc,        \* position of the parent process in __main__
    pdf_files,     \* process_all_pdfs: the list list_pdfs returned
    queue,         \* Pool.map: the tasks not yet taken by a worker
    worker,        \* per pool process: the file in hand and process_pdf's locals
    status,        \* per directory entry: how far process_pdf got with it
    report_data,   \* the global report_data of each process (0 = the parent)
    collection,    \* documents inserted into pdf_documents by this run
    log,           \* entries of pdf_pipeline.log
    report,        \* what generate_report printed
    main_stdout,   \* what the parent printed, in order
    raised,        \* where an exception escaped in the parent
    exitCode,      \* exit status of the script, -1 while it runs
    closeCount,    \* calls of client.close()
    t_stage,       \* SpecText: which text functions were applied
    t_file,        \* SpecText: the input file
    t_parsed,      \* SpecText: the outcome of parse_pdf
    t_summary,     \* SpecText: the outcome of summarize_text
    t_keywords     \* SpecText: the outcome of extract_keywords

pipelineVars ==
    <<dirExists, directory, mainpc, pdf_files, queue, worker, status, report_data,
      collection, log, report, main_stdout, raised, exitCode, closeCount>>
textVars == <<t_stage, t_file, t_parsed, t_summary, t_keywords>>
vars == <<pipelineVars, textVars>>

Workers == 1..NumWorkers
Parent == 0
Procs == {Parent} \cup Workers

\* sequences over S of length at most n
RECURSIVE SeqUpTo(_, _)
SeqUpTo(S, n) ==
    IF n = 0 THEN {<<>>}
    ELSE LET shorter == SeqUpTo(S, n - 1)
         IN  shorter \cup {Append(s, x) : s \in shorter, x \in S}

\* every file the text functions are applied to
FileInputs == [pages : SeqUpTo(PageTexts, MaxPages), broken : BOOLEAN]

PTwice == <<"Cat", "!", " ", "Cat", "!">>
PGood == <<"Cat", "!", " ", "dog", "!">>
PStop == <<"the", "!">>
PX == <<"x", "!", " ", "x", "!">>

\* the PDFs the source directory may hold: one per outcome of process_pdf
Catalog ==
    { [pages |-> <<>>, broken |-> FALSE],          \* no page: blank text
      [pages |-> <<>>, broken |-> TRUE],           \* cannot be opened
      [pages |-> <<PTwice>>, broken |-> TRUE],      \* second page cannot be read
      [pages |-> <<PGood>>, broken |-> FALSE],     \* two sentences, two terms
      [pages |-> <<PStop>>, broken |-> FALSE],     \* stop words only
      [pages |-> <<PX, PX>>, broken |-> FALSE],    \* four sentences, no term
      [pages |-> <<PX, PTwice>>, broken |-> FALSE] } \* four sentences, one term

NotAPdf == [pages |-> <<>>, broken |-> TRUE]

\* os.path.getsize of the i-th directory entry
FileSize(i) == 100 * i

DirEntry(i, ext, content) ==
    [name |-> i, ext |-> ext, content |-> content, size |-> FileSize(i)]

Directories ==
    UNION { { [i \in 1..n |-> DirEntry(i, e[i].ext, e[i].content)] :
                e \in [1..n -> {[ext |-> ".pdf", content |-> c] : c \in Catalog}
                                  \cup {[ext |-> ".txt", content |-> NotAPdf]}] } :
            n \in 0..MaxFiles }

NoTask == 0
Idle == [task |-> NoTask, text |-> <<>>, summary |-> <<>>, keywords |-> <<>>]
ZeroCounts == [processed_files |-> 0, failed_files |-> 0, total_size |-> 0]
NoReport == [printed |-> FALSE]
NoOutcome == [raised |-> FALSE, value |-> <<"not applied">>]

TextIdle ==
    /\ t_stage = "off"
    /\ t_file = NotAPdf
    /\ t_parsed = [text |-> <<>>, logged |-> FALSE, raised |-> FALSE]
    /\ t_summary = NoOutcome
    /\ t_keywords = NoOutcome

\* the state when __main__ is entered: module-level code has run
Init ==
    /\ dirExists \in BOOLEAN
    /\ directory \in (IF dirExists THEN Directories ELSE {<<>>})
    /\ mainpc = "start"
    /\ pdf_files = <<>>
    /\ queue = <<>>
    /\ worker = [w \in Workers |-> Idle]
    /\ status = [i \in 1..Len(directory) |-> "Pending"]
    /\ report_data = [p \in Procs |-> ZeroCounts]
    /\ collection = EmptyBag
    /\ log = {}
    /\ report = NoReport
    /\ main_stdout = <<>>
    /\ raised = "none"
    /\ exitCode = -1
    /\ closeCount = 0
    /\ TextIdle


\* ------------------------------------------------------------ the parent
\* f.endswith('.pdf')
endswith_pdf(entry) == entry.ext = ".pdf"

\* list_pdfs(folder_path): the positions of the matching entries, in
\* listing order
list_pdfs(listing) ==
    LET ispdf(i) == endswith_pdf(listing[i])
    IN  SelectSeq([i \in 1..Len(listing) |-> i], ispdf)

\* the existence check as it would be if it never saw a missing directory
DirectoryMissingNeverSeen == FALSE

\* process_all_pdfs: "if not os.path.exists(pdf_dir)"
DirectoryMissing == ~dirExists

\* pool.map as it would be if it returned once every task was handed out
AllResultsInWhenDispatched == queue = <<>>

\* Pool.map returns when every task has been taken and has returned
AllResultsIn == queue = <<>> /\ \A w \in Workers : worker[w].task = NoTask

\* generate_report(): reads the report_data of the calling process
generate_report(data) ==
    [ printed |-> TRUE,
      total_processed |-> data.processed_files,
      total_failed |-> data.failed_files,
      total_size |-> data.total_size,
      \* avg_size = total_size / total_processed if total_processed else 0,
      \* kept as the fraction avg_num / avg_den
      avg_num |-> IF data.processed_files # 0 THEN data.total_size ELSE 0,
      avg_den |-> IF data.processed_files # 0 THEN data.processed_files ELSE 1 ]

\* process_all_pdfs, lines 143-154: the existence check, the listing and the
\* start of the pool (each pool process starts with a copy of the parent's
\* globals)
ProcessAllPdfs ==
    /\ mainpc = "start"
    /\ IF DirectoryMissing
       THEN /\ main_stdout' = Append(main_stdout, "Directory does not exist")
            /\ mainpc' = "timing"
            /\ UNCHANGED <<pdf_files, queue, report_data, raised, exitCode>>
       ELSE IF ~dirExists
       THEN \* os.listdir raises FileNotFoundError, uncaught
            /\ raised' = "process_all_pdfs"
            /\ mainpc' = "exit"
            /\ exitCode' = 1
            /\ UNCHANGED <<pdf_files, queue, report_data, main_stdout>>
       ELSE /\ pdf_files' = list_pdfs(directory)
            /\ queue' = list_pdfs(directory)
            /\ report_data' = [p \in Procs |-> report_data[Parent]]
            /\ mainpc' = "pool"
            /\ UNCHANGED <<main_stdout, raised, exitCode>>
    /\ UNCHANGED <<dirExists, directory, worker, status, collection, log, report,
                   closeCount, textVars>>

\* process_all_pdfs, lines 154-157: pool.map returns, the pool is torn down
\* and generate_report() prints the parent's report_data
PoolMapReturns ==
    /\ mainpc = "pool"
    /\ AllResultsIn
    /\ report' = generate_report(report_data[Parent])
    /\ main_stdout' = Append(main_stdout, "PDF Processing Report")
    /\ mainpc' = "timing"
    /\ UNCHANGED <<dirExists, directory, pdf_files, queue, worker, status,
                   report_data, collection, log, raised, exitCode, closeCount,
                   textVars>>

\* __main__, lines 209-213: the timing line and display_mongo_summary()
DisplayMongoSummary ==
    /\ mainpc = "timing"
    /\ main_stdout' = main_stdout \o <<"Processed all PDFs", "MongoDB Summary">>
    /\ mainpc' = "listing"
    /\ UNCHANGED <<dirExists, directory, pdf_files, queue, worker, status,
                   report_data, collection, log, report, raised, exitCode,
                   closeCount, textVars>>

\* __main__, lines 214-215: list_pdfs(pdf_dir) once more; os.listdir raises
\* FileNotFoundError for a missing directory and nothing catches it
ListPdfsAgain ==
    /\ mainpc = "listing"
    /\ IF dirExists
       THEN /\ main_stdout' = Append(main_stdout, "PDFs found")
            /\ mainpc' = "closing"
            /\ UNCHANGED <<raised, exitCode>>
       ELSE /\ raised' = "__main__"
            /\ exitCode' = 1
            /\ mainpc' = "exit"
            /\ UNCHANGED main_stdout
    /\ UNCHANGED <<dirExists, directory, pdf_files, queue, worker, status,
                   report_data, collection, log, report, closeCount, textVars>>

\* __main__, line 218: client.close(), then the script ends
CloseClient ==
    /\ mainpc = "closing"
    /\ closeCount' = closeCount + 1
    /\ exitCode' = 0
    /\ mainpc' = "exit"
    /\ UNCHANGED <<dirExists, directory, pdf_files, queue, worker, status,
                   report_data, collection, log, report, main_stdout, raised,
                   textVars>>

\* ------------------------------------------------------- a pool process
\* process_pdf's "except Exception": log, count the failure, print
except_handler(data) == [data EXCEPT !.failed_files = @ + 1]

\* os.path.join(pdf_dir, pdf_file) and os.path.basename
path_join(dir, name) == <<dir, name>>
basename(path) == path[Len(path)]

\* the document store_pdf_metadata inserts
metadata(f, parsed_text, summary, keywords) ==
    [ filename |-> basename(path_join("PDF_Folder_Path", directory[f].name)),
      path |-> path_join("PDF_Folder_Path", directory[f].name),
      size |-> directory[f].size,
      content |-> parsed_text,
      summary |-> summary,
      keywords |-> keywords ]

\* collection.insert_one(document): the collection is a bag of documents
insert_one(coll, document) == coll (+) SetToBag({document})

Failed(w, f, data) ==
    /\ report_data' = [report_data EXCEPT ![w] = except_handler(data)]
    /\ status' = [status EXCEPT ![f] = "Failed"]
    /\ worker' = [worker EXCEPT ![w] = Idle]

\* a pool process takes the next task and runs process_pdf lines 117-127,
\* which touch nothing but the process's own memory and the log: parse_pdf,
\* the blank check, summarize_text and extract_keywords
Analyse(w) ==
    /\ mainpc = "pool"
    /\ worker[w].task = NoTask
    /\ queue # <<>>
    /\ LET f == Head(queue)
           parsed == parse_pdf(directory[f].content)
           errors == IF parsed.logged THEN {[by |-> "parse_pdf", file |-> f]} ELSE {}
           blank == strip(parsed.text) = <<>>
       IN  /\ queue' = Tail(queue)
           /\ \E s \in IF parsed.raised \/ blank THEN {Raised}
                       ELSE summarize_text(parsed.text, NumSentences) :
              \E k \in IF s.raised THEN {Raised}
                       ELSE extract_keywords(parsed.text, NumKeywords) :
                 IF s.raised \/ k.raised
                 THEN /\ Failed(w, f, report_data[w])
                      /\ log' = log \cup errors \cup {[by |-> "process_pdf", file |-> f]}
                 ELSE /\ worker' = [worker EXCEPT ![w] =
                             [task |-> f, text |-> parsed.text,
                              summary |-> s.value, keywords |-> k.value]]
                      /\ status' = [status EXCEPT ![f] = "Analysed"]
                      /\ log' = log \cup errors
                      /\ UNCHANGED report_data
    /\ UNCHANGED <<dirExists, directory, mainpc, pdf_files, collection, report,
                   main_stdout, raised, exitCode, closeCount, textVars>>

\* process_pdf line 130, store_pdf_metadata: os.path.getsize raises OSError
\* when the file is gone, insert_one raises when the server is unreachable
Store(w) ==
    /\ worker[w].task # NoTask
    /\ status[worker[w].task] = "Analysed"
    /\ LET f == worker[w].task
       IN  \E getsize_ok, insert_ok \in BOOLEAN :
              IF getsize_ok /\ insert_ok
              THEN /\ collection' = insert_one(collection,
                          metadata(f, worker[w].text, worker[w].summary,
                                   worker[w].keywords))
                   /\ status' = [status EXCEPT ![f] = "Persisted"]
                   /\ UNCHANGED <<worker, report_data, log>>
              ELSE /\ Failed(w, f, report_data[w])
                   /\ log' = log \cup {[by |-> "process_pdf", file |-> f]}
                   /\ UNCHANGED collection
    /\ UNCHANGED <<dirExists, directory, mainpc, pdf_files, queue, report,
                   main_stdout, raised, exitCode, closeCount, textVars>>

\* process_pdf lines 133-134, inside the same try block: the second
\* os.path.getsize raises after processed_files was incremented
Track(w) ==
    /\ worker[w].task # NoTask
    /\ status[worker[w].task] = "Persisted"
    /\ LET f == worker[w].task
           counted == [report_data[w] EXCEPT !.processed_files = @ + 1]
       IN  \E getsize_ok \in BOOLEAN :
              IF getsize_ok
              THEN /\ report_data' = [report_data EXCEPT
                          ![w] = [counted EXCEPT !.total_size = @ + directory[f].size]]
                   /\ status' = [status EXCEPT ![f] = "Done"]
                   /\ worker' = [worker EXCEPT ![w] = Idle]
                   /\ UNCHANGED log
              ELSE /\ Failed(w, f, counted)
                   /\ log' = log \cup {[by |-> "process_pdf", file |-> f]}
    /\ UNCHANGED <<dirExists, directory, mainpc, pdf_files, queue, collection,
                   report, main_stdout, raised, exitCode, closeCount, textVars>>

Next ==
    \/ ProcessAllPdfs
    \/ PoolMapReturns
    \/ DisplayMongoSummary
    \/ ListPdfsAgain
    \/ CloseClient
    \/ \E w \in Workers : Analyse(w)
    \/ \E w \in Workers : Store(w)
    \/ \E w \in Workers : Track(w)

Spec == Init /\ [][Next]_vars


\* --------------------------------------------- the text functions alone
PipelineOff ==
    /\ dirExists = FALSE
    /\ directory = <<>>
    /\ mainpc = "off"
    /\ pdf_files = <<>>
    /\ queue = <<>>
    /\ worker = [w \in Workers |-> Idle]
    /\ status = <<>>
    /\ report_data = [p \in Procs |-> ZeroCounts]
    /\ collection = EmptyBag
    /\ log = {}
    /\ report = NoReport
    /\ main_stdout = <<>>
    /\ raised = "none"
    /\ exitCode = -1
    /\ closeCount = 0

InitText ==
    /\ PipelineOff
    /\ t_stage = "input"
    /\ t_file \in FileInputs
    /\ t_parsed = [text |-> <<>>, logged |-> FALSE, raised |-> FALSE]
    /\ t_summary = NoOutcome
    /\ t_keywords = NoOutcome

\* text = parse_pdf(file_path)
TextParse ==
    /\ t_stage = "input"
    /\ t_parsed' = parse_pdf(t_file)
    /\ t_stage' = "parsed"
    /\ UNCHANGED <<t_file, t_summary, t_keywords, pipelineVars>>

\* summarize_text(text)
TextSummarize ==
    /\ t_stage = "parsed"
    /\ t_summary = NoOutcome
    /\ \E s \in summarize_text(t_parsed.text, NumSentences) : t_summary' = s
    /\ UNCHANGED <<t_stage, t_file, t_parsed, t_keywords, pipelineVars>>

\* extract_keywords(text)
TextKeywords ==
    /\ t_stage = "parsed"
    /\ t_keywords = NoOutcome
    /\ \E k \in extract_keywords(t_parsed.text, NumKeywords) : t_keywords' = k
    /\ UNCHANGED <<t_stage, t_file, t_parsed, t_summary, pipelineVars>>

NextText == TextParse \/ TextSummarize \/ TextKeywords

SpecText == InitText /\ [][NextText]_vars

\* ------------------------------------------------------------ the claims
Candidates == Range(pdf_files)
Terminal == {"Done", "Failed"}

RECURSIVE SumSizes(_)
SumSizes(fs) == IF fs = <<>> THEN 0 ELSE directory[Head(fs)].size + SumSizes(Tail(fs))

RECURSIVE SumCounts(_)
SumCounts(ps) ==
    IF ps = {} THEN 0
    ELSE LET p == CHOOSE q \in ps : TRUE
         IN  report_data[p].processed_files + report_data[p].failed_files
                 + SumCounts(ps \ {p})

\* the documents of the collection that were stored for directory entry f
Records(f) == {d \in BagToSet(collection) : d.filename = directory[f].name}
Copies(f) ==
    LET ds == Records(f)
    IN  IF ds = {} THEN 0 ELSE CopiesIn(CHOOSE d \in ds : TRUE, collection)

\* the text process_pdf gets for directory entry f is blank
Blank(f) == strip(parse_pdf(directory[f].content).text) = <<>>

\* C1: when process_all_pdfs has run on an existing directory, the counts the
\* report reads add up to the number of candidate files:
\* processed + failed = number of candidates.
C1_ReportCountsEveryCandidate ==
    report.printed =>
        report.total_processed + report.total_failed = Len(pdf_files)

\* C2: when every candidate was processed successfully, the report shows
\* processed = number of candidates, failed = 0, total size = the sum of the
\* file sizes and average = total size / processed.
C2_AllSucceededReport ==
    (report.printed /\ \A f \in Candidates : status[f] = "Done") =>
        /\ report.total_processed = Len(pdf_files)
        /\ report.total_failed = 0
        /\ report.total_size = SumSizes(pdf_files)
        /\ report.avg_num * Len(pdf_files) = SumSizes(pdf_files) * report.avg_den

\* C3: a candidate whose extracted text is blank is never analysed or stored
\* and ends Failed, the other candidates are still processed, and a batch of
\* one valid and one blank file is reported as processed = 1, failed = 1.
C3_BlankFileFailsAlone ==
    /\ \A f \in Candidates :
           Blank(f) => /\ status[f] \in {"Pending", "Failed"}
                       /\ Records(f) = {}
    /\ (/\ report.printed
        /\ Len(pdf_files) = 2
        /\ \E f, g \in Candidates : Blank(f) /\ status[f] = "Failed" /\ status[g] = "Done")
       => (report.total_processed = 1 /\ report.total_failed = 1)

\* C4: on an existing directory no per-file error escapes into the parent,
\* every PDF of the directory is a task of the pool, and the report is printed
\* only when every candidate is Done or Failed.
C4_ReportAfterAllTerminal ==
    /\ dirExists => raised = "none"
    /\ mainpc \notin {"start", "off"} /\ dirExists => pdf_files = list_pdfs(directory)
    /\ report.printed => \A f \in Candidates : status[f] \in Terminal
    /\ \A f \in DOMAIN status : status[f] # "Pending" => f \in Candidates

C4_Witness ==
    /\ report.printed
    /\ \E f, g \in Candidates : status[f] = "Failed" /\ status[g] = "Done"

\* C5: with a missing directory process_all_pdfs prints the message and
\* returns: nothing is listed or dispatched, no exception leaves it, nothing is
\* stored, no report is printed and every count stays 0.
C5_MissingDirectoryAborts ==
    (~dirExists /\ mainpc \notin {"start", "off"}) =>
        /\ main_stdout # <<>> /\ main_stdout[1] = "Directory does not exist"
        /\ raised # "process_all_pdfs"
        /\ pdf_files = <<>> /\ queue = <<>>
        /\ \A w \in Workers : worker[w] = Idle
        /\ collection = EmptyBag
        /\ \A p \in Procs : report_data[p] = ZeroCounts
        /\ ~report.printed

C5_Witness == ~dirExists /\ mainpc = "listing" /\ Len(main_stdout) = 3

\* C6: every run of the script ends with exit code 0, no exception escaping,
\* and exactly one client.close().
C6_ExitsZeroClosedOnce ==
    mainpc = "exit" => (exitCode = 0 /\ raised = "none" /\ closeCount = 1)

RECURSIVE Offset(_, _)
Offset(pages, k) ==
    IF k <= 1 THEN 0 ELSE Offset(pages, k - 1) + Len(pages[k - 1]) + 1

C8_KeywordsNeverRaise ==
    t_keywords # NoOutcome =>
        /\ ~t_keywords.raised
        /\ Len(t_keywords.value) <= NumKeywords

\* C9: a file is counted once, as processed or as failed, so the counts of all
\* processes together never exceed the number of candidate files.
C9_OneOutcomePerFile ==
    SumCounts(Procs) <= Len(pdf_files)

\* C10: a candidate that reached a terminal state has a document in the
\* collection exactly when it is Done, and never more than one.
C10_RecordIffDone ==
    \A f \in Candidates :
        /\ Copies(f) <= 1
        /\ status[f] \in Terminal => (Records(f) # {} <=> status[f] = "Done")

====
